---- MODULE Spec2Model ----
(***************************************************************************)
(* Romantic: the Roman numeral codec of src/source/lib.rs.                 *)
(*                                                                         *)
(* Roman::new builds two lookup tables from an ordered character set,      *)
(* Roman::to_string turns an integer into a numeral and Roman::from_str    *)
(* turns a numeral into an integer of a requested primitive type.          *)
(*                                                                         *)
(* A character is a one-letter string, a text a sequence of characters.    *)
(* A usize is held as UsizeBits/16 limbs of 16 bits, least significant     *)
(* first, so that the 64-bit products of to_string are computed exactly.   *)
(* Table magnitudes and the values of from_str are plain integers.         *)
(***************************************************************************)
EXTENDS Integers, Sequences, FiniteSets

VARIABLES
  character_set,            \* the slice handed to Roman::new
  character_magnitude_map,  \* Roman.character_magnitude_map
  magnitude_character_map,  \* Roman.magnitude_character_map
  op,                       \* the last call made on the codec
  number,                   \* to_string's input when it is a native integer
  digits,                   \* number.to_string(): its decimal digits
  encoded,                  \* to_string's Result
  kind,                     \* from_str's type parameter T
  input,                    \* from_str's input
  decoded,                  \* from_str's Result
  pc,                       \* per thread: idle, loop or done
  call,                     \* per thread: the call in progress
  frame,                    \* per call frame: the locals of the running loop
  ret                       \* per thread: the value the call returned

vars == <<character_set, character_magnitude_map, magnitude_character_map,
          op, number, digits, encoded, kind, input, decoded,
          pc, call, frame, ret>>

codec == <<character_set, character_magnitude_map, magnitude_character_map>>
threads == <<pc, call, frame, ret>>

-----------------------------------------------------------------------------
(* Bounds of the model.                                                    *)

\* to_string is called with every native number in -MaxNegative..MaxNumber.
MaxNumber == 4003
\* -MaxNegative is the least number to_string is called with.
MaxNegative == 2
\* from_str is called with every text of at most MaxLen characters.
MaxLen == 3
\* to_string is also called with d * 10^k for every k up to MaxWideIndex.
MaxWideIndex == 20
\* The threads that share one codec.
NumThreads == 2

-----------------------------------------------------------------------------
(* Sequences.                                                              *)

RECURSIVE Reverse(_)
Reverse(s) == IF s = <<>> THEN <<>> ELSE Reverse(Tail(s)) \o <<Head(s)>>

Repeat(x, n) == [i \in 1..n |-> x]

Range(s) == {s[i] : i \in 1..Len(s)}

Prefixes(s) == {SubSeq(s, 1, n) : n \in 0..Len(s)}

RECURSIVE Texts(_, _)
Texts(chars, n) ==
  IF n = 0 THEN {<<>>}
  ELSE LET shorter == Texts(chars, n - 1)
       IN shorter \cup {Append(t, c) : t \in {s \in shorter : Len(s) = n - 1}, c \in chars}

-----------------------------------------------------------------------------
(* usize: unsigned, UsizeBits wide.                                        *)

UsizeBits == 64
LimbBase == 2^16
NumLimbs == UsizeBits \div 16

RECURSIVE Limbs(_, _)
Limbs(n, count) ==
  IF count = 0 THEN <<>>
  ELSE <<n % LimbBase>> \o Limbs(n \div LimbBase, count - 1)

\* The usize of a magnitude the tables hold.
Usize(n) == Limbs(n, NumLimbs)

RECURSIVE MulLimbs(_, _, _)
MulLimbs(w, k, carry) ==
  IF w = <<>> THEN <<carry>>
  ELSE LET p == Head(w) * k + carry
       IN <<p % LimbBase>> \o MulLimbs(Tail(w), k, p \div LimbBase)

\* w * k on usize: the wrapped product, and whether it overflowed.
UsizeMul(w, k) ==
  LET r == MulLimbs(w, k, 0)
  IN [value |-> SubSeq(r, 1, NumLimbs), overflow |-> r[NumLimbs + 1] # 0]

\* num::pow::pow(10, index) on usize: index multiplications by ten.
RECURSIVE pow(_)
pow(index) ==
  IF index = 0 THEN [value |-> Usize(1), overflow |-> FALSE]
  ELSE LET p == pow(index - 1)
       IN IF p.overflow
          THEN [value |-> UsizeMul(p.value, 10).value, overflow |-> TRUE]
          ELSE UsizeMul(p.value, 10)

-----------------------------------------------------------------------------
(* Roman::new.                                                             *)

DefaultSet == <<"I", "V", "X", "L", "C", "D", "M">>
CustomSet == <<"A", "B", "C", "D">>

values == <<1, 5>>
modulo == Len(values)

Insert(map, key, value) ==
  [k \in DOMAIN map \cup {key} |-> IF k = key THEN value ELSE map[k]]

EmptyMap == [k \in {} |-> 0]

\* magnitude after the loop has visited the indices 0..index.
RECURSIVE MagnitudeAt(_)
MagnitudeAt(index) ==
  IF index = 0 THEN 1
  ELSE IF index % modulo = 0 THEN MagnitudeAt(index - 1) * 10
  ELSE MagnitudeAt(index - 1)

\* ValueAt with the magnitude raised at every index.
ValueAtEveryIndex(index) == (10 ^ index) * values[(index % modulo) + 1]

ValueAt(index) == MagnitudeAt(index) * values[(index % modulo) + 1]

\* The tables after the loop has visited the first n characters.
RECURSIVE NewLoop(_, _)
NewLoop(set, n) ==
  IF n = 0
  THEN [character_magnitude_map |-> EmptyMap, magnitude_character_map |-> EmptyMap]
  ELSE LET self == NewLoop(set, n - 1)
           character == set[n]
           value == ValueAt(n - 1)
       IN [character_magnitude_map |->
             Insert(self.character_magnitude_map, character, value),
           magnitude_character_map |->
             Insert(self.magnitude_character_map, value, character)]

Roman_new(set) == NewLoop(set, Len(set))

-----------------------------------------------------------------------------
(* Roman::to_string.                                                       *)

NegativeNumber == [tag |-> "NegativeNumber"]
MissingMagnitude(m) == [tag |-> "MissingMagnitude", m |-> m]
OkString(s) == [tag |-> "Ok", text |-> s]
Overflowed == [tag |-> "panic"]
Running == [tag |-> "running"]
None == [tag |-> "none"]

\* ToString::to_string of a non-negative integer: its decimal digits.
RECURSIVE Decimal(_)
Decimal(n) == IF n < 10 THEN <<n>> ELSE Append(Decimal(n \div 10), n % 10)

\* The closure value_of_character.
value_of_character(self, m) ==
  LET keys == {k \in DOMAIN self.magnitude_character_map : Usize(k) = m}
  IN IF keys = {} THEN MissingMagnitude(m)
     ELSE OkString(<<self.magnitude_character_map[CHOOSE k \in keys : TRUE]>>)

\* DigitArm with the pairs of 4 and 9 written in reading order.
DigitArmUnreversed(digit, unit_1, unit_5, unit_10) ==
  CASE digit \in 1..3 -> Repeat(unit_1, digit)
    [] digit = 4 -> <<unit_1, unit_5>>
    [] digit = 5 -> <<unit_5>>
    [] digit \in 6..8 -> Repeat(unit_1, digit - 5) \o <<unit_5>>
    [] digit = 9 -> <<unit_1, unit_10>>

\* The arm of the match for a digit: the units it takes with `?`, in the
\* order in which it takes them.
DigitArm(digit, unit_1, unit_5, unit_10) ==
  CASE digit \in 1..3 -> Repeat(unit_1, digit)
    [] digit = 4 -> <<unit_5, unit_1>>
    [] digit = 5 -> <<unit_5>>
    [] digit \in 6..8 -> Repeat(unit_1, digit - 5) \o <<unit_5>>
    [] digit = 9 -> <<unit_10, unit_1>>

\* The first Err of the units taken, or the string they format to.
RECURSIVE Try(_)
Try(units) ==
  IF units = <<>> THEN OkString(<<>>)
  ELSE IF Head(units).tag # "Ok" THEN Head(units)
  ELSE LET rest == Try(Tail(units))
       IN IF rest.tag # "Ok" THEN rest
          ELSE OkString(Head(units).text \o rest.text)

\* to_string_iter taking all three units with `?` before the match.
to_string_iter_eager(self, overflow_checks, index, digit, result) ==
  IF digit = 0 THEN [result |-> result, ret |-> Running]
  ELSE
    LET magnitude == pow(index)
        times_5 == UsizeMul(magnitude.value, 5)
        times_10 == UsizeMul(magnitude.value, 10)
        unit_1 == value_of_character(self, magnitude.value)
        unit_5 == value_of_character(self, times_5.value)
        unit_10 == value_of_character(self, times_10.value)
        units == Try(<<unit_1, unit_5, unit_10>>)
        arm == Try(DigitArm(digit, unit_1, unit_5, unit_10))
    IN IF overflow_checks
          /\ (magnitude.overflow \/ times_5.overflow \/ times_10.overflow)
       THEN [result |-> result, ret |-> Overflowed]
       ELSE IF units.tag # "Ok" THEN [result |-> result, ret |-> units]
       ELSE [result |-> result \o arm.text, ret |-> Running]

\* One iteration of the for loop: the digit at `index` of the reversed
\* decimal string, with the string built so far.
to_string_iter(self, overflow_checks, index, digit, result) ==
  IF digit = 0 THEN [result |-> result, ret |-> Running]
  ELSE
    LET magnitude == pow(index)
        times_5 == UsizeMul(magnitude.value, 5)
        times_10 == UsizeMul(magnitude.value, 10)
        unit_1 == value_of_character(self, magnitude.value)
        unit_5 == value_of_character(self, times_5.value)
        unit_10 == value_of_character(self, times_10.value)
        arm == Try(DigitArm(digit, unit_1, unit_5, unit_10))
    IN IF overflow_checks
          /\ (magnitude.overflow \/ times_5.overflow \/ times_10.overflow)
       THEN [result |-> result, ret |-> Overflowed]
       ELSE IF arm.tag # "Ok" THEN [result |-> result, ret |-> arm]
       ELSE [result |-> result \o arm.text, ret |-> Running]

\* The for loop from `index` on.
RECURSIVE to_string_loop(_, _, _, _, _)
to_string_loop(self, overflow_checks, reversed, index, result) ==
  IF index >= Len(reversed) THEN OkString(Reverse(result))
  ELSE LET next == to_string_iter(self, overflow_checks, index,
                                  reversed[index + 1], result)
       IN IF next.ret.tag # "running" THEN next.ret
          ELSE to_string_loop(self, overflow_checks, reversed, index + 1,
                              next.result)

\* to_string of a number given by its sign and its decimal digits. With
\* overflow_checks the build panics on arithmetic overflow, without it wraps.
to_string(self, overflow_checks, negative, decimal) ==
  IF negative THEN NegativeNumber
  ELSE to_string_loop(self, overflow_checks, Reverse(decimal), 0, <<>>)

-----------------------------------------------------------------------------
(* Roman::from_str.                                                        *)

InvalidCharacter(c) == [tag |-> "InvalidCharacter", character |-> c]
GenericConversion == [tag |-> "GenericConversion"]
Overflow == [tag |-> "Overflow"]
OkInt(v) == [tag |-> "Ok", value |-> v]
Some(v) == [tag |-> "Some", value |-> v]

\* The primitive integer types from_str is instantiated with.
PrimInt(name, signed, bits) ==
  [name |-> name,
   signed |-> signed,
   min |-> IF signed THEN -(2^(bits - 1)) ELSE 0,
   max |-> IF signed THEN 2^(bits - 1) - 1 ELSE 2^bits - 1]

i8 == PrimInt("i8", TRUE, 8)
u8 == PrimInt("u8", FALSE, 8)
i16 == PrimInt("i16", TRUE, 16)
u16 == PrimInt("u16", FALSE, 16)
NoType == [name |-> "none", signed |-> FALSE, min |-> 0, max |-> 0]

PrimInts == {i8, u8, i16, u16}

\* T::from(value) for a usize value.
NumCast(T, value) == IF value <= T.max THEN Some(value) ELSE None

\* checked_add as a wrapping addition.
wrapping_add(T, a, b) ==
  LET width == T.max - T.min + 1
  IN Some((((a + b) - T.min) % width) + T.min)

checked_add(T, a, b) == IF a + b > T.max \/ a + b < T.min THEN None ELSE Some(a + b)

checked_sub(T, a, b) == IF a - b < T.min \/ a - b > T.max THEN None ELSE Some(a - b)

\* Subtract without the ten-fold case.
SubtractFiveFold(value, next) ==
  IF next.tag = "Some" THEN value * 5 = next.value ELSE FALSE

\* Subtract before any larger magnitude.
SubtractSmaller(value, next) ==
  IF next.tag = "Some" THEN value < next.value ELSE FALSE

\* The match on the peeked character's magnitude.
Subtract(value, next) ==
  IF next.tag = "Some"
  THEN (value * 5 = next.value) \/ (value * 10 = next.value)
  ELSE FALSE

\* get with a default of zero for a character the table lacks.
get_or_zero(self, character) ==
  IF character \in DOMAIN self.character_magnitude_map
  THEN Some(self.character_magnitude_map[character])
  ELSE Some(0)

\* HashMap::get on character_magnitude_map.
get(self, character) ==
  IF character \in DOMAIN self.character_magnitude_map
  THEN Some(self.character_magnitude_map[character])
  ELSE None

\* One iteration of the while loop: the character at position `index`
\* (from 1) with the total so far.
from_str_iter(self, T, text, index, result) ==
  LET character == text[index]
      value == get(self, character)
      generic_value == NumCast(T, value.value)
      subtract == /\ index < Len(text)
                  /\ Subtract(value.value, get(self, text[index + 1]))
      total == IF subtract THEN checked_sub(T, result, generic_value.value)
               ELSE checked_add(T, result, generic_value.value)
  IN IF value.tag # "Some" THEN [result |-> result, ret |-> InvalidCharacter(character)]
     ELSE IF generic_value.tag # "Some" THEN [result |-> result, ret |-> GenericConversion]
     ELSE IF total.tag # "Some" THEN [result |-> result, ret |-> Overflow]
     ELSE [result |-> total.value, ret |-> Running]

\* The while loop from position `index` on.
RECURSIVE from_str_loop(_, _, _, _, _)
from_str_loop(self, T, text, index, result) ==
  IF index > Len(text) THEN OkInt(result)
  ELSE LET next == from_str_iter(self, T, text, index, result)
       IN IF next.ret.tag # "running" THEN next.ret
          ELSE from_str_loop(self, T, text, index + 1, next.result)

from_str(self, T, text) == from_str_loop(self, T, text, 1, 0)

-----------------------------------------------------------------------------
(* The codec and the calls made on it, one call per step. As in the tests, *)
(* a codec is constructed, one call is made on it, and a numeral that      *)
(* to_string returned may be handed to from_str.                           *)

Self ==
  [character_magnitude_map |-> character_magnitude_map,
   magnitude_character_map |-> magnitude_character_map]

CharacterSets == Prefixes(DefaultSet) \cup Prefixes(CustomSet)

\* The characters texts are made of: those of the set's family and one more.
TextChars(set) ==
  IF set \in Prefixes(DefaultSet) THEN Range(DefaultSet) \cup {"A"}
  ELSE Range(CustomSet) \cup {"I"}

\* The inputs of the tests, and IIII.
TestInputs ==
  {<<"M", "M", "X", "X", "I", "I">>,
   <<"M", "M", "M", "C", "M", "X", "C", "I", "X">>,
   <<"M", "M", "M", "D", "C", "C", "C", "L", "X", "X", "X", "V", "I", "I", "I">>,
   <<"V", "I", "I", "I">>,
   <<"I", "I", "I", "I">>,
   <<"B", "A", "A", "A">>}

Threads == 1..NumThreads

IdleFrame == [index |-> 0, text |-> <<>>, total |-> 0]
NoCall ==
  [fn |-> "none", negative |-> FALSE, decimal |-> <<>>, T |-> NoType, text |-> <<>>]

Construct(sets) ==
  /\ character_set \in sets
  /\ character_magnitude_map = Roman_new(character_set).character_magnitude_map
  /\ magnitude_character_map = Roman_new(character_set).magnitude_character_map
  /\ op = "new"
  /\ number = 0
  /\ digits = <<>>
  /\ encoded = None
  /\ kind = NoType
  /\ input = <<>>
  /\ decoded = None
  /\ pc = [t \in Threads |-> "idle"]
  /\ call = [t \in Threads |-> NoCall]
  /\ frame = [t \in Threads |-> IdleFrame]
  /\ ret = [t \in Threads |-> None]

Init == Construct(CharacterSets)

Abs(n) == IF n < 0 THEN -n ELSE n

\* roman.to_string(n) for a native n.
ToString(n) ==
  /\ op' = "to_string"
  /\ number' = n
  /\ digits' = Decimal(Abs(n))
  /\ \E overflow_checks \in BOOLEAN :
       encoded' = to_string(Self, overflow_checks, n < 0, digits')
  /\ kind' = NoType
  /\ input' = <<>>
  /\ decoded' = None
  /\ UNCHANGED <<codec, threads>>

\* roman.to_string(d * 10^k) for a number of up to 128 bits.
ToStringWide(d, k) ==
  /\ op' = "to_string_wide"
  /\ number' = 0
  /\ digits' = <<d>> \o Repeat(0, k)
  /\ \E overflow_checks \in BOOLEAN :
       encoded' = to_string(Self, overflow_checks, FALSE, digits')
  /\ kind' = NoType
  /\ input' = <<>>
  /\ decoded' = None
  /\ UNCHANGED <<codec, threads>>

\* roman.from_str::<T>(text).
FromStr(T, text) ==
  /\ op' = "from_str"
  /\ kind' = T
  /\ input' = text
  /\ decoded' = from_str(Self, T, text)
  /\ number' = 0
  /\ digits' = <<>>
  /\ encoded' = None
  /\ UNCHANGED <<codec, threads>>

\* roman.from_str::<T>(&roman.to_string(n).unwrap()).
FromStrEncoded(T) ==
  /\ op = "to_string"
  /\ encoded.tag = "Ok"
  /\ op' = "round_trip"
  /\ kind' = T
  /\ input' = encoded.text
  /\ decoded' = from_str(Self, T, encoded.text)
  /\ UNCHANGED <<number, digits, encoded, codec, threads>>

Next ==
  \/ op = "new" /\ \E n \in -MaxNegative..MaxNumber : ToString(n)
  \/ op = "new" /\ \E d \in 1..9, k \in 0..MaxWideIndex : ToStringWide(d, k)
  \/ op = "new" /\ \E T \in PrimInts, text \in Texts(TextChars(character_set), MaxLen) \cup TestInputs :
                     FromStr(T, text)
  \/ \E T \in PrimInts : FromStrEncoded(T)

Spec == Init /\ [][Next]_vars

-----------------------------------------------------------------------------
(* Threads that share one codec: each makes one call after another, and    *)
(* a call advances by one iteration of its loop per step. The locals of a  *)
(* call (index, result) live in the frame of that call.                    *)

\* All calls run in the frame of the first thread.
SharedFrame(t) == 1

\* The frame that holds the locals of thread t's call.
Frame(t) == t

ToStringCall(n) ==
  [fn |-> "to_string", negative |-> n < 0, decimal |-> Decimal(Abs(n)),
   T |-> NoType, text |-> <<>>]

FromStrCall(T, text) ==
  [fn |-> "from_str", negative |-> FALSE, decimal |-> <<>>, T |-> T, text |-> text]

\* The calls the threads make: some that succeed and some that fail.
ThreadCalls ==
  {ToStringCall(n) : n \in {-1, 14, 4000}}
    \cup {FromStrCall(T, text) :
            T \in {i8, u8},
            text \in {<<"X", "I", "V">>, <<"C", "C">>, <<"I", "A">>}}

\* The length of the loop of a call.
LoopLength(c) == IF c.fn = "to_string" THEN Len(c.decimal) ELSE Len(c.text)

\* Thread t enters a call: to_string returns at once for a negative number.
Enter(t, c) ==
  /\ pc[t] = "idle"
  /\ call' = [call EXCEPT ![t] = c]
  /\ frame' = [frame EXCEPT ![Frame(t)] = IdleFrame]
  /\ IF c.fn = "to_string" /\ c.negative
     THEN /\ pc' = [pc EXCEPT ![t] = "done"]
          /\ ret' = [ret EXCEPT ![t] = NegativeNumber]
     ELSE /\ pc' = [pc EXCEPT ![t] = "loop"]
          /\ ret' = [ret EXCEPT ![t] = None]
  /\ UNCHANGED <<codec, op, number, digits, encoded, kind, input, decoded>>

\* Thread t runs one iteration of the loop of its call.
Iterate(t) ==
  /\ pc[t] = "loop"
  /\ frame[Frame(t)].index < LoopLength(call[t])
  /\ LET locals == frame[Frame(t)]
         next == IF call[t].fn = "to_string"
                 THEN to_string_iter(Self, TRUE, locals.index,
                                     Reverse(call[t].decimal)[locals.index + 1],
                                     locals.text)
                 ELSE from_str_iter(Self, call[t].T, call[t].text,
                                    locals.index + 1, locals.total)
     IN IF next.ret.tag # "running"
        THEN /\ pc' = [pc EXCEPT ![t] = "done"]
             /\ ret' = [ret EXCEPT ![t] = next.ret]
             /\ frame' = frame
        ELSE /\ frame' = [frame EXCEPT ![Frame(t)] =
                            IF call[t].fn = "to_string"
                            THEN [locals EXCEPT !.index = locals.index + 1,
                                                !.text = next.result]
                            ELSE [locals EXCEPT !.index = locals.index + 1,
                                                !.total = next.result]]
             /\ UNCHANGED <<pc, ret>>
  /\ UNCHANGED <<codec, call, op, number, digits, encoded, kind, input, decoded>>

\* Thread t's loop has ended: the call returns Ok.
Return(t) ==
  /\ pc[t] = "loop"
  /\ frame[Frame(t)].index >= LoopLength(call[t])
  /\ pc' = [pc EXCEPT ![t] = "done"]
  /\ ret' = [ret EXCEPT ![t] =
               IF call[t].fn = "to_string"
               THEN OkString(Reverse(frame[Frame(t)].text))
               ELSE OkInt(frame[Frame(t)].total)]
  /\ UNCHANGED <<codec, call, frame, op, number, digits, encoded, kind, input, decoded>>

\* Thread t is ready for its next call.
Again(t) ==
  /\ pc[t] = "done"
  /\ pc' = [pc EXCEPT ![t] = "idle"]
  /\ call' = [call EXCEPT ![t] = NoCall]
  /\ ret' = [ret EXCEPT ![t] = None]
  /\ UNCHANGED <<codec, frame, op, number, digits, encoded, kind, input, decoded>>

InitThreads == Construct({DefaultSet, <<"A", "B", "C">>})

NextThreads ==
  \/ \E t \in Threads, c \in ThreadCalls : Enter(t, c)
  \/ \E t \in Threads : Iterate(t)
  \/ \E t \in Threads : Return(t)
  \/ \E t \in Threads : Again(t)

SpecThreads == InitThreads /\ [][NextThreads]_vars

-----------------------------------------------------------------------------
(* What the numeral system says, written without the tables: the symbol at *)
(* position i of the character set (from 1) has magnitude 10^g for i =     *)
(* 2g + 1 and 5 * 10^g for i = 2g + 2.                                     *)

IndexOf(set, c) == CHOOSE i \in 1..Len(set) : set[i] = c

MagnitudeOf(set, c) ==
  LET i == IndexOf(set, c)
  IN (IF i % 2 = 1 THEN 1 ELSE 5) * 10 ^ ((i - 1) \div 2)

\* The symbol of magnitude 10^p (five = FALSE) or 5 * 10^p (five = TRUE).
SymbolOf(set, five, p) ==
  LET i == 2 * p + (IF five THEN 2 ELSE 1)
  IN IF i <= Len(set) THEN set[i] ELSE "?"

\* The pattern of digit d at scale 10^p, in reading order.
DigitPattern(set, d, p) ==
  LET U == SymbolOf(set, FALSE, p)
      F == SymbolOf(set, TRUE, p)
      T == SymbolOf(set, FALSE, p + 1)
  IN CASE d = 0 -> <<>>
       [] d \in 1..3 -> Repeat(U, d)
       [] d = 4 -> <<U, F>>
       [] d = 5 -> <<F>>
       [] d \in 6..8 -> <<F>> \o Repeat(U, d - 5)
       [] d = 9 -> <<U, T>>

DigitAt(n, p) == (n \div 10 ^ p) % 10

\* The numeral of n: the patterns of its digits from scale 10^p down.
RECURSIVE NumeralFrom(_, _, _)
NumeralFrom(set, n, p) ==
  DigitPattern(set, DigitAt(n, p), p)
    \o (IF p = 0 THEN <<>> ELSE NumeralFrom(set, n, p - 1))

\* One more than the index of the most significant digit of any native n.
NativeDigits == Len(Decimal(MaxNumber + 1))

Numeral(set, n) == NumeralFrom(set, n, NativeDigits)

\* The magnitudes the pattern of digit d at scale 10^p uses.
Needed(d, p) ==
  CASE d = 0 -> {}
    [] d \in 1..3 -> {10 ^ p}
    [] d = 4 -> {10 ^ p, 5 * 10 ^ p}
    [] d = 5 -> {5 * 10 ^ p}
    [] d \in 6..8 -> {10 ^ p, 5 * 10 ^ p}
    [] d = 9 -> {10 ^ p, 10 ^ (p + 1)}

\* The magnitudes that have a symbol.
Magnitudes(set) == {MagnitudeOf(set, set[i]) : i \in 1..Len(set)}

\* The scales at which n's digit needs a symbol the set lacks.
Lacking(set, n) ==
  {p \in 0..NativeDigits : ~(Needed(DigitAt(n, p), p) \subseteq Magnitudes(set))}

Min(S) == CHOOSE x \in S : \A y \in S : x <= y

\* The largest number the set has a numeral for.
Ceiling(set) ==
  LET g == Len(set) \div 2
  IN IF Len(set) = 0 THEN 0
     ELSE IF Len(set) % 2 = 1 THEN 4 * 10 ^ g - 1
     ELSE 9 * 10 ^ (g - 1) - 1

\* The sign with which the character at position i of a text counts.
SignAt(set, text, i) ==
  IF /\ i < Len(text)
     /\ text[i + 1] \in Range(set)
     /\ MagnitudeOf(set, text[i + 1])
          \in {5 * MagnitudeOf(set, text[i]), 10 * MagnitudeOf(set, text[i])}
  THEN -1
  ELSE 1

\* The running total after the first k characters of a text.
RECURSIVE RunningTotal(_, _, _)
RunningTotal(set, text, k) ==
  IF k = 0 THEN 0
  ELSE RunningTotal(set, text, k - 1)
         + SignAt(set, text, k) * MagnitudeOf(set, text[k])

InRange(T, v) == T.min <= v /\ v <= T.max

\* The positions at which the running total of a text leaves T's range.
Leaving(T, set, text, upto) ==
  {k \in 1..upto : ~InRange(T, RunningTotal(set, text, k))}

\* The positions among the first `upto` at which from_str must fail: the
\* magnitude is not in T, or the running total leaves T's range.
Failing(T, set, text, upto) ==
  {k \in 1..upto : \/ MagnitudeOf(set, text[k]) > T.max
                   \/ ~InRange(T, RunningTotal(set, text, k))}

\* The positions of the characters of a text that the set lacks.
Absent(set, text) == {i \in 1..Len(text) : text[i] \notin Range(set)}

\* A usize as a number, when it is below 2^31.
IsSmall(m) == m[2] < LimbBase \div 2 /\ \A i \in 3..NumLimbs : m[i] = 0
NatOf(m) == m[1] + m[2] * LimbBase

Native == op \in {"to_string", "round_trip"}
Decoding == op \in {"from_str", "round_trip"}

-----------------------------------------------------------------------------
(* The claims.                                                             *)

\* The magnitudes of the symbols of the numeral handed to from_str fit T.
SymbolsFit ==
  \A i \in 1..Len(input) : MagnitudeOf(character_set, input[i]) <= kind.max

\* C1: a numeral that to_string returned for n, decoded into a signed type
\* that holds n and the magnitude of each of its symbols, gives n back.
RoundTripSigned ==
  (op = "round_trip" /\ kind.signed /\ number <= kind.max /\ SymbolsFit)
    => decoded = OkInt(number)

RoundTripSignedWitness ==
  /\ op = "round_trip"
  /\ character_set = DefaultSet
  /\ kind = i16
  /\ number = 3999
  /\ input = <<"M", "M", "M", "C", "M", "X", "C", "I", "X">>
  /\ decoded = OkInt(3999)

\* C2: a numeral that to_string returned for n, decoded into an unsigned
\* type that holds n and the magnitude of each of its symbols, gives n back.
RoundTripUnsigned ==
  (op = "round_trip" /\ ~kind.signed /\ number <= kind.max /\ SymbolsFit)
    => decoded = OkInt(number)

\* C3: the text to_string returns for n is the numeral of n: the patterns of
\* n's decimal digits, most significant first; the empty text for 0.
EncodeIsNumeral ==
  (Native /\ encoded.tag = "Ok")
    => encoded.text = Numeral(character_set, number)

EncodeIsNumeralWitness ==
  /\ op = "to_string"
  /\ character_set = DefaultSet
  /\ number = 3888
  /\ encoded = OkString(<<"M", "M", "M", "D", "C", "C", "C", "L", "X", "X", "X",
                          "V", "I", "I", "I">>)

\* C4: a text of characters of the set, decoded into a signed type that
\* holds every running total, gives the signed sum of its magnitudes, each
\* character counted once: negatively before a character of 5 or 10 times
\* its magnitude, positively otherwise.
DecodeIsSignedSum ==
  (/\ Decoding
   /\ kind.signed
   /\ Absent(character_set, input) = {}
   /\ Leaving(kind, character_set, input, Len(input)) = {})
    => decoded = OkInt(RunningTotal(character_set, input, Len(input)))

DecodeIsSignedSumWitness ==
  /\ op = "from_str"
  /\ character_set = DefaultSet
  /\ kind = i8
  /\ \/ input = <<"I", "X", "C">> /\ decoded = OkInt(89)
     \/ input = <<"I", "I", "I", "I">> /\ decoded = OkInt(4)

DecodeRejectsAbsent ==
  (Decoding /\ Absent(character_set, input) # {}) =>
    LET j == Min(Absent(character_set, input))
    IN IF Failing(kind, character_set, input, j - 1) = {}
       THEN decoded = InvalidCharacter(input[j])
       ELSE decoded \in {Overflow, GenericConversion}

DecodeRejectsAbsentWitness ==
  /\ op = "from_str"
  /\ character_set = <<"I", "V", "X">>
  /\ kind = u8
  /\ input = <<"X", "L", "C">>
  /\ decoded = InvalidCharacter("L")

\* C7: a text of characters of the set is decoded into T to the exact signed
\* sum when every magnitude is in T and every running total is in T's range;
\* otherwise the result is GenericConversion when the magnitude of the
\* leftmost failing character is not in T, and Overflow when it is.
DecodeIsChecked ==
  (Decoding /\ Absent(character_set, input) = {}) =>
    LET out == Failing(kind, character_set, input, Len(input))
    IN IF out = {}
       THEN decoded = OkInt(RunningTotal(character_set, input, Len(input)))
       ELSE IF MagnitudeOf(character_set, input[Min(out)]) > kind.max
       THEN decoded = GenericConversion
       ELSE decoded = Overflow

DecodeIsCheckedWitness ==
  /\ op = "from_str"
  /\ character_set = DefaultSet
  /\ kind = i8
  /\ input = <<"C", "X", "X", "X">> \/ input = <<"C", "L">>
  /\ decoded = Overflow

NeededMultiples(d) ==
  CASE d \in 1..3 -> {1}
    [] d = 4 -> {1, 5}
    [] d = 5 -> {5}
    [] d \in 6..8 -> {1, 5}
    [] d = 9 -> {1, 10}

\* C10: for a number d * 10^k of any width to_string returns a numeral or
\* MissingMagnitude(m), m being the magnitude c * 10^k of a symbol the digit
\* needs, with no overflow, wrap-around or abort.
EncodeWideIsTagged ==
  op = "to_string_wide" =>
    /\ encoded.tag \in {"Ok", "MissingMagnitude"}
    /\ encoded.tag = "MissingMagnitude" =>
         \E c \in NeededMultiples(Head(digits)) :
           LET scale == pow(Len(digits) - 1)
               m == UsizeMul(scale.value, c)
           IN ~scale.overflow /\ ~m.overflow /\ encoded.m = m.value

\* The result of a call made alone on a codec constructed for the same set.
Alone(c) ==
  IF c.fn = "to_string"
  THEN to_string(Roman_new(character_set), TRUE, c.negative, c.decimal)
  ELSE from_str(Roman_new(character_set), c.T, c.text)

\* C8: whatever calls the threads have made and in whatever order their
\* steps ran, the tables are those Roman::new built, and a call that has
\* returned returned what the same call returns when made alone on a codec
\* constructed for the same character set.
CallsArePure ==
  /\ Self = Roman_new(character_set)
  /\ \A t \in Threads : pc[t] = "done" => ret[t] = Alone(call[t])

CallsArePureWitness ==
  /\ character_set = DefaultSet
  /\ pc[1] = "done" /\ call[1] = FromStrCall(u8, <<"X", "I", "V">>) /\ ret[1] = OkInt(14)
  /\ pc[2] = "done" /\ call[2] = ToStringCall(4000)
  /\ ret[2] = MissingMagnitude(Usize(5000))

====
